---- MODULE Spec2Model ----
(***************************************************************************)
(* Mekofix backend: the service-request lifecycle, the settlement ledger   *)
(* and the withdrawal processor, as implemented by the Express handlers    *)
(* in backend/src/controllers.  Every handler is a sequence of awaited     *)
(* database operations; each awaited operation is one atomic step and      *)
(* handlers of concurrent HTTP calls interleave between steps.             *)
(*                                                                         *)
(* Money is counted in whole currency units.  The labor costs drawn as     *)
(* inputs are multiples of 20, so that 15% of them is a whole number and   *)
(* the arithmetic of the handlers is exact.  Ratings are kept in tenths.   *)
(*                                                                         *)
(* The database is the Supabase client's view of the tables: a select      *)
(* with .single() yields a row only when exactly one row matches.  Queries *)
(* succeed, except the insert of a withdrawal row, whose failure the       *)
(* handler handles explicitly.                                             *)
(*                                                                         *)
(* A handler's first step runs from its entry to the end of its first      *)
(* query and the checks made on the result; a handler that throws there    *)
(* never enters the bag of calls in flight, and `last` records its answer. *)
(***************************************************************************)
EXTENDS Integers, Sequences, FiniteSets, Bags, TLC

(* ---- bounds --------------------------------------------------------- *)
MaxRequests == 1        \* rows createServiceRequest may insert
MaxInFlight == 2        \* handlers running at the same time
MaxLedger == 3          \* wallet_transactions rows after which no new call starts a write to the ledger

(* ---- the people and things the database knows ----------------------- *)
Customers == {"c1"}
Mechanics == {"m1", "m2"}
Users == Customers \cup Mechanics
VerificationStatus == [m \in Mechanics |-> IF m = "m1" THEN "approved" ELSE "pending"]
Vehicles == {"v1"}
VehicleOwner == [v \in Vehicles |-> "c1"]

(* ---- request bodies: JSON values as the handlers receive them -------- *)
(* A value is absent, a number or a string of digits; v is its integer    *)
(* part and frac its first decimal: Dec(4, 5) is the number 4.5.           *)
Absent == [json |-> "absent", v |-> 0, frac |-> 0]
Num(n) == [json |-> "number", v |-> n, frac |-> 0]
Dec(n, f) == [json |-> "number", v |-> n, frac |-> f]
Str(n) == [json |-> "string", v |-> n, frac |-> 0]       \* a string of digits, e.g. "0"
Falsy(x) == x.json = "absent" \/ (x.json = "number" /\ x.v = 0 /\ x.frac = 0)   \* JavaScript !x
ParseFloat(x) == x.v         \* of a value without decimals, the only ones sent as amounts
ParseInt(x) == x.v           \* the digits before the decimal point: parseInt(4.5) is 4

MaterialInputs == {Num(50)}
LaborInputs == {Num(100), Num(0)}
RepricedLaborInputs == LaborInputs \cup {Num(200), Str(0)}    \* a second price, and the string "0"
RatingInputs == {Num(4), Num(6), Dec(4, 5)}
AmountInputs == {Absent, Str(40), Str(200)}

(* ---- nullable columns ----------------------------------------------- *)
Null == <<>>
Some(v) == <<v>>
Val(x) == x[1]

(* ---- state ---------------------------------------------------------- *)
VARIABLES
  service_requests,     \* table service_requests: sequence of rows, id = index
  mechanic_profiles,    \* table mechanic_profiles: user_id -> row
  wallet_transactions,  \* table wallet_transactions: sequence of rows, in insertion order
  notifications,        \* table notifications: bag of rows
  calls,                \* handlers in flight: bag of records (position and locals)
  last                  \* the step taken last: handler, step, HTTP status sent (0: none yet), locals before the step

vars == <<service_requests, mechanic_profiles, wallet_transactions, notifications, calls, last>>
db == <<service_requests, mechanic_profiles, wallet_transactions, notifications>>

NoCall == [op |-> "none", pc |-> "none", userId |-> "none", id |-> 0,
           materialCost |-> 0, laborCost |-> 0, customerRating |-> 0,
           amount |-> 0, srCustomer |-> "none", srMechanic |-> "none",
           srLabor |-> Null, finalize |-> FALSE, currentBalance |-> 0,
           rating |-> 0, body |-> Absent,
           latitude |-> 0, longitude |-> 0, radiusKm |-> 0, mechanics |-> <<>>,
           data |-> <<>>]

NewCall(op, userId, id) == [NoCall EXCEPT !.op = op, !.userId = userId, !.id = id]

Init ==
  /\ service_requests = <<>>
  /\ mechanic_profiles = [m \in Mechanics |->
        [wallet_balance |-> 0, is_available |-> TRUE, rating |-> 0,
         verification_status |-> VerificationStatus[m],
         location_lat |-> Null, location_lng |-> Null, specializations |-> {}]]
  /\ wallet_transactions = <<>>
  /\ notifications = EmptyBag
  /\ calls = EmptyBag
  /\ last = [step |-> "init", code |-> 0, call |-> NoCall]

(* ---- bookkeeping of the handlers in flight -------------------------- *)
InFlight == BagToSet(calls)
CanStart(n) == BagCardinality(calls) < n
Spawn(c) == calls' = calls (+) SetToBag({c})
Move(c, d) == calls' = (calls (-) SetToBag({c})) (+) SetToBag({d})
Finish(c) == calls' = calls (-) SetToBag({c})
Did(step, code, c) == last' = [step |-> step, code |-> code, call |-> c]

Exists(id) == id \in 1..Len(service_requests)
Notify(userId, title, id) ==
  notifications' = notifications (+)
     SetToBag({[user_id |-> userId, title |-> title, reference_id |-> id]})

(* the locals a handler keeps of the row it read *)
Read(c, id) == [c EXCEPT !.srCustomer = service_requests[id].customer_id,
                         !.srMechanic = service_requests[id].mechanic_id,
                         !.srLabor = service_requests[id].labor_cost]

(* ---- createServiceRequest ------------------------------------------- *)
ApprovedAlways(profile) == TRUE

Approved(profile) == profile.verification_status = "approved"

NewRequest(customer_id, mechanic_id) ==
  [customer_id |-> customer_id, mechanic_id |-> mechanic_id, status |-> "pending",
   material_cost |-> Null, labor_cost |-> Null, total_cost |-> Null,
   customer_rating |-> Null, mechanic_confirmed |-> FALSE,
   customer_confirmed |-> FALSE, arrived_at |-> Null, completed_at |-> Null]

CreateStart(n) ==
  \E u \in Users, m \in Users :
    LET c == [NewCall("create", u, 0) EXCEPT !.srMechanic = m] IN
    /\ CanStart(n)
    /\ Len(service_requests) < MaxRequests
    /\ \A d \in InFlight : d.op # "create"
    /\ UNCHANGED db
    /\ IF m \notin DOMAIN mechanic_profiles
         THEN Did("create", 404, c) /\ UNCHANGED calls
       ELSE IF ~Approved(mechanic_profiles[m])
              \/ ~mechanic_profiles[m].is_available
         THEN Did("create", 400, c) /\ UNCHANGED calls
       ELSE Did("create", 0, c) /\ Spawn([c EXCEPT !.pc = "cr_vehicle"])

CreateVehicle ==
  \E c \in InFlight, v \in Vehicles :
    /\ c.pc = "cr_vehicle"
    /\ UNCHANGED db
    /\ IF VehicleOwner[v] # c.userId
         THEN Did("cr_vehicle", 404, c) /\ Finish(c)
         ELSE Did("cr_vehicle", 0, c) /\ Move(c, [c EXCEPT !.pc = "cr_insert"])

CreateInsert ==
  \E c \in InFlight :
    /\ c.pc = "cr_insert"
    /\ service_requests' = Append(service_requests, NewRequest(c.userId, c.srMechanic))
    /\ UNCHANGED <<mechanic_profiles, wallet_transactions, notifications>>
    /\ Did("cr_insert", 0, c)
    /\ Move(c, [c EXCEPT !.pc = "cr_notify", !.id = Len(service_requests) + 1])

CreateNotify ==
  \E c \in InFlight :
    /\ c.pc = "cr_notify"
    /\ Notify(c.srMechanic, "New Service Request", c.id)
    /\ UNCHANGED <<service_requests, mechanic_profiles, wallet_transactions>>
    /\ Did("cr_notify", 201, c)
    /\ Finish(c)

(* ---- toggleAvailability --------------------------------------------- *)
ToggleStart(n) ==
  \E u \in Users :
    LET c == NewCall("toggle", u, 0) IN
    /\ CanStart(n)
    /\ UNCHANGED db
    /\ IF u \notin DOMAIN mechanic_profiles
         THEN Did("toggle", 404, c) /\ UNCHANGED calls
         ELSE Did("toggle", 0, c)
              /\ Spawn([c EXCEPT !.pc = "t_write",
                                 !.finalize = ~mechanic_profiles[u].is_available])

ToggleWrite ==
  \E c \in InFlight :
    /\ c.pc = "t_write"
    /\ mechanic_profiles' = [mechanic_profiles EXCEPT ![c.userId].is_available = c.finalize]
    /\ UNCHANGED <<service_requests, wallet_transactions, notifications>>
    /\ Did("t_write", 200, c)
    /\ Finish(c)

(* ---- the update of a row by id -------------------------------------- *)
SetStatus(id, st) == [service_requests EXCEPT ![id].status = st]

(* ---- the status guards of accept and decline ------------------------- *)
IsPendingAlways(row) == TRUE

IsPending(row) == row.status = "pending"

(* ---- whose request it is -------------------------------------------- *)
IsAssignedAnyone(row, userId) == TRUE

IsAssigned(row, userId) == row.mechanic_id = userId       \* serviceRequest.mechanic_id !== userId throws 403

IsRequester(row, userId) == row.customer_id = userId      \* serviceRequest.customer_id !== userId throws 403

(* ---- acceptServiceRequest ------------------------------------------- *)
AcceptStart(n) ==
  \E u \in Users, id \in 1..MaxRequests :
    LET c == NewCall("accept", u, id) IN
    /\ CanStart(n)
    /\ UNCHANGED db
    /\ IF u \notin DOMAIN mechanic_profiles
         THEN Did("accept", 404, c) /\ UNCHANGED calls
       ELSE IF ~mechanic_profiles[u].is_available
         THEN Did("accept", 400, c) /\ UNCHANGED calls
       ELSE Did("accept", 0, c) /\ Spawn([c EXCEPT !.pc = "ac_read"])

AcceptRead ==
  \E c \in InFlight :
    /\ c.pc = "ac_read"
    /\ UNCHANGED db
    /\ IF ~Exists(c.id)
         THEN Did("ac_read", 404, c) /\ Finish(c)
       ELSE IF ~IsAssigned(service_requests[c.id], c.userId)
         THEN Did("ac_read", 403, c) /\ Finish(c)
       ELSE IF ~IsPending(service_requests[c.id])
         THEN Did("ac_read", 400, c) /\ Finish(c)
       ELSE Did("ac_read", 0, c) /\ Move(c, [Read(c, c.id) EXCEPT !.pc = "ac_write"])

AcceptWrite ==
  \E c \in InFlight :
    /\ c.pc = "ac_write"
    /\ service_requests' = SetStatus(c.id, "accepted")
    /\ UNCHANGED <<mechanic_profiles, wallet_transactions, notifications>>
    /\ Did("ac_write", 0, c)
    /\ Move(c, [c EXCEPT !.pc = "ac_notify"])

AcceptNotify ==
  \E c \in InFlight :
    /\ c.pc = "ac_notify"
    /\ Notify(c.srCustomer, "Service Request Accepted", c.id)
    /\ UNCHANGED <<service_requests, mechanic_profiles, wallet_transactions>>
    /\ Did("ac_notify", 200, c)
    /\ Finish(c)

(* ---- declineServiceRequest ------------------------------------------ *)
DeclineStart(n) ==
  \E u \in Users, id \in 1..MaxRequests :
    LET c == NewCall("decline", u, id) IN
    /\ CanStart(n)
    /\ UNCHANGED db
    /\ IF ~Exists(id)
         THEN Did("decline", 404, c) /\ UNCHANGED calls
       ELSE IF ~IsAssigned(service_requests[id], u)
         THEN Did("decline", 403, c) /\ UNCHANGED calls
       ELSE IF ~IsPending(service_requests[id])
         THEN Did("decline", 400, c) /\ UNCHANGED calls
       ELSE Did("decline", 0, c) /\ Spawn([Read(c, id) EXCEPT !.pc = "de_write"])

DeclineWrite ==
  \E c \in InFlight :
    /\ c.pc = "de_write"
    /\ service_requests' = SetStatus(c.id, "cancelled")
    /\ UNCHANGED <<mechanic_profiles, wallet_transactions, notifications>>
    /\ Did("de_write", 200, c)
    /\ Finish(c)

(* ---- markArrived ---------------------------------------------------- *)
ArrivedUpdateStatusOnly(row) == [row EXCEPT !.status = "in_progress"]

(* the update of markArrived, applied to the stored row *)
ArrivedUpdate(row) == [row EXCEPT !.status = "in_progress", !.arrived_at = Some("now")]

ArrivedStart(n) ==
  \E u \in Users, id \in 1..MaxRequests :
    LET c == NewCall("arrived", u, id) IN
    /\ CanStart(n)
    /\ UNCHANGED db
    /\ IF ~Exists(id)
         THEN Did("arrived", 404, c) /\ UNCHANGED calls
       ELSE IF ~IsAssigned(service_requests[id], u)
         THEN Did("arrived", 403, c) /\ UNCHANGED calls
       ELSE IF service_requests[id].status # "accepted"
         THEN Did("arrived", 400, c) /\ UNCHANGED calls
       ELSE Did("arrived", 0, c) /\ Spawn([Read(c, id) EXCEPT !.pc = "ar_write"])

ArrivedWrite ==
  \E c \in InFlight :
    /\ c.pc = "ar_write"
    /\ service_requests' = [service_requests EXCEPT ![c.id] = ArrivedUpdate(@)]
    /\ UNCHANGED <<mechanic_profiles, wallet_transactions, notifications>>
    /\ Did("ar_write", 0, c)
    /\ Move(c, [c EXCEPT !.pc = "ar_notify"])

ArrivedNotify ==
  \E c \in InFlight :
    /\ c.pc = "ar_notify"
    /\ Notify(c.srCustomer, "Mechanic Arrived", c.id)
    /\ UNCHANGED <<service_requests, mechanic_profiles, wallet_transactions>>
    /\ Did("ar_notify", 200, c)
    /\ Finish(c)

(* ---- cancelServiceRequest ------------------------------------------- *)
CancelStart(n) ==
  \E u \in Users, id \in 1..MaxRequests :
    LET c == NewCall("cancel", u, id) IN
    /\ CanStart(n)
    /\ UNCHANGED db
    /\ IF ~Exists(id)
         THEN Did("cancel", 404, c) /\ UNCHANGED calls
       ELSE IF ~IsRequester(service_requests[id], u)
         THEN Did("cancel", 403, c) /\ UNCHANGED calls
       ELSE IF service_requests[id].status \notin {"pending", "accepted"}
         THEN Did("cancel", 400, c) /\ UNCHANGED calls
       ELSE Did("cancel", 0, c) /\ Spawn([Read(c, id) EXCEPT !.pc = "ca_write"])

CancelWrite ==
  \E c \in InFlight :
    /\ c.pc = "ca_write"
    /\ service_requests' = SetStatus(c.id, "cancelled")
    /\ UNCHANGED <<mechanic_profiles, wallet_transactions, notifications>>
    /\ Did("ca_write", 0, c)
    /\ Move(c, [c EXCEPT !.pc = "ca_notify"])

CancelNotify ==
  \E c \in InFlight :
    /\ c.pc = "ca_notify"
    /\ Notify(c.srMechanic, "Service Request Cancelled", c.id)
    /\ UNCHANGED <<service_requests, mechanic_profiles, wallet_transactions>>
    /\ Did("ca_notify", 200, c)
    /\ Finish(c)

(* ---- settlement: commission on labor -------------------------------- *)
Commission(laborCost) == (laborCost * 15) \div 100     \* laborCost * 0.15
Earnings(laborCost) == laborCost - Commission(laborCost)

CommissionRows(id) ==
  {i \in 1..Len(wallet_transactions) :
      /\ wallet_transactions[i].reference_id = Some(id)
      /\ wallet_transactions[i].reference_type = "service_request"
      /\ wallet_transactions[i].transaction_type = "commission_deduction"}

(* .single() yields a row only when the query matches exactly one row *)
ExistingTransaction(id) == Cardinality(CommissionRows(id)) = 1

CommissionRow(userId, id, laborCost) ==
  [user_id |-> userId, amount |-> 0 - Commission(laborCost),
   transaction_type |-> "commission_deduction", reference_id |-> Some(id),
   reference_type |-> "service_request", status |-> Null]

(* ---- rating: mean of the provider's rated requests, one decimal ------ *)
RatedRows(mechanic_id) ==
  {i \in 1..Len(service_requests) :
      /\ service_requests[i].mechanic_id = mechanic_id
      /\ service_requests[i].customer_rating # Null}

RECURSIVE TotalRating(_)
TotalRating(S) ==
  IF S = {} THEN 0
  ELSE LET i == CHOOSE j \in S : TRUE
       IN Val(service_requests[i].customer_rating) + TotalRating(S \ {i})

(* Math.round(total / n * 10) / 10, in tenths *)
AverageRating(total, n) == (20 * total + n) \div (2 * n)

(* ---- completeServiceRequest (customer) ------------------------------ *)
TotalCostLaborOnly(materialCost, laborCost) == laborCost

TotalCost(materialCost, laborCost) == materialCost + laborCost

(* `last` keeps the body the call came with; the handler goes on with the *)
(* parsed values only.                                                     *)
CompleteStartWith(n, labors) ==
  \E u \in Users, id \in 1..MaxRequests,
     material_cost \in MaterialInputs, labor_cost \in labors, rating \in RatingInputs :
    LET c == [NewCall("complete", u, id) EXCEPT
                !.materialCost = ParseFloat(material_cost),
                !.laborCost = ParseFloat(labor_cost),
                !.customerRating = ParseInt(rating)]
        req == [c EXCEPT !.body = [material_cost |-> material_cost,
                                   labor_cost |-> labor_cost, rating |-> rating]] IN
    /\ CanStart(n)
    /\ UNCHANGED db
    /\ IF Falsy(material_cost) \/ Falsy(labor_cost) \/ Falsy(rating)
         THEN Did("complete", 400, req) /\ UNCHANGED calls
       ELSE IF c.customerRating < 1 \/ c.customerRating > 5
         THEN Did("complete", 400, req) /\ UNCHANGED calls
       ELSE IF ~Exists(id)
         THEN Did("complete", 404, req) /\ UNCHANGED calls
       ELSE IF ~IsRequester(service_requests[id], u)
         THEN Did("complete", 403, req) /\ UNCHANGED calls
       ELSE IF service_requests[id].status # "in_progress"
         THEN Did("complete", 400, req) /\ UNCHANGED calls
       ELSE Did("complete", 0, req)
            /\ Spawn([Read(c, id) EXCEPT !.pc = "cc_write",
                        !.finalize = service_requests[id].mechanic_confirmed])

CompleteStart(n) == CompleteStartWith(n, LaborInputs)

CompleteWrite ==
  \E c \in InFlight :
    /\ c.pc = "cc_write"
    /\ service_requests' =
         [service_requests EXCEPT ![c.id] =
            [@ EXCEPT !.material_cost = Some(c.materialCost),
                      !.labor_cost = Some(c.laborCost),
                      !.total_cost = Some(TotalCost(c.materialCost, c.laborCost)),
                      !.customer_rating = Some(c.customerRating),
                      !.customer_confirmed = TRUE,
                      !.status = IF c.finalize THEN "completed" ELSE @,
                      !.completed_at = IF c.finalize THEN Some("now") ELSE @]]
    /\ UNCHANGED <<mechanic_profiles, wallet_transactions, notifications>>
    /\ Did("cc_write", 0, c)
    /\ Move(c, [c EXCEPT !.pc = IF c.finalize THEN "cc_existing" ELSE "cc_ratings"])

CompleteExisting ==
  \E c \in InFlight :
    /\ c.pc = "cc_existing"
    /\ UNCHANGED db
    /\ Did("cc_existing", 0, c)
    /\ Move(c, [c EXCEPT !.pc = IF ExistingTransaction(c.id) THEN "cc_ratings"
                                 ELSE "cc_profile"])

CompleteProfile ==
  \E c \in InFlight :
    /\ c.pc = "cc_profile"
    /\ UNCHANGED db
    /\ Did("cc_profile", 0, c)
    /\ IF c.srMechanic \in DOMAIN mechanic_profiles
         THEN Move(c, [c EXCEPT !.pc = "cc_balance",
                          !.currentBalance = mechanic_profiles[c.srMechanic].wallet_balance])
         ELSE Move(c, [c EXCEPT !.pc = "cc_ratings"])

CompleteBalance ==
  \E c \in InFlight :
    /\ c.pc = "cc_balance"
    /\ mechanic_profiles' = [mechanic_profiles EXCEPT
          ![c.srMechanic].wallet_balance = c.currentBalance + Earnings(c.laborCost)]
    /\ UNCHANGED <<service_requests, wallet_transactions, notifications>>
    /\ Did("cc_balance", 0, c)
    /\ Move(c, [c EXCEPT !.pc = "cc_transaction"])

CompleteTransaction ==
  \E c \in InFlight :
    /\ c.pc = "cc_transaction"
    /\ wallet_transactions' =
         Append(wallet_transactions, CommissionRow(c.srMechanic, c.id, c.laborCost))
    /\ UNCHANGED <<service_requests, mechanic_profiles, notifications>>
    /\ Did("cc_transaction", 0, c)
    /\ Move(c, [c EXCEPT !.pc = "cc_ratings"])

CompleteRatings ==
  \E c \in InFlight :
    LET rows == RatedRows(c.srMechanic) IN
    /\ c.pc = "cc_ratings"
    /\ UNCHANGED db
    /\ IF rows # {}
         THEN /\ Did("cc_ratings", 0, c)
              /\ Move(c, [c EXCEPT !.pc = "cc_rate",
                            !.rating = AverageRating(TotalRating(rows), Cardinality(rows))])
         ELSE Did("cc_ratings", 200, c) /\ Finish(c)

CompleteRate ==
  \E c \in InFlight :
    /\ c.pc = "cc_rate"
    /\ mechanic_profiles' = [mechanic_profiles EXCEPT ![c.srMechanic].rating = c.rating]
    /\ UNCHANGED <<service_requests, wallet_transactions, notifications>>
    /\ Did("cc_rate", 200, c)
    /\ Finish(c)

(* ---- completeServiceRequestMechanic --------------------------------- *)
Truthy(column) == column # Null /\ Val(column) # 0      \* a numeric column as a JavaScript condition

MechanicUpdateDataEager(row, finalize) ==
  [row EXCEPT !.mechanic_confirmed = TRUE, !.status = "completed",
              !.completed_at = Some("now")]

(* updateData of the provider's confirmation, applied to the stored row *)
MechanicUpdateData(row, finalize) ==
  [row EXCEPT !.mechanic_confirmed = TRUE,
              !.status = IF finalize THEN "completed" ELSE @,
              !.completed_at = IF finalize THEN Some("now") ELSE @]

MechanicCompleteStart(n) ==
  \E u \in Users, id \in 1..MaxRequests :
    LET c == NewCall("mcomplete", u, id) IN
    /\ CanStart(n)
    /\ UNCHANGED db
    /\ IF ~Exists(id)
         THEN Did("mcomplete", 404, c) /\ UNCHANGED calls
       ELSE IF ~IsAssigned(service_requests[id], u)
         THEN Did("mcomplete", 403, c) /\ UNCHANGED calls
       ELSE IF service_requests[id].status # "in_progress"
         THEN Did("mcomplete", 400, c) /\ UNCHANGED calls
       ELSE Did("mcomplete", 0, c)
            /\ Spawn([Read(c, id) EXCEPT !.pc = "mc_write",
                        !.finalize = service_requests[id].customer_confirmed])

MechanicCompleteWrite ==
  \E c \in InFlight :
    /\ c.pc = "mc_write"
    /\ service_requests' =
         [service_requests EXCEPT ![c.id] = MechanicUpdateData(@, c.finalize)]
    /\ UNCHANGED <<mechanic_profiles, wallet_transactions, notifications>>
    /\ IF c.finalize /\ Truthy(c.srLabor)
         THEN Did("mc_write", 0, c)
              /\ Move(c, [c EXCEPT !.pc = "mc_existing", !.laborCost = Val(c.srLabor)])
         ELSE Did("mc_write", 200, c) /\ Finish(c)

MechanicCompleteExisting ==
  \E c \in InFlight :
    /\ c.pc = "mc_existing"
    /\ UNCHANGED db
    /\ Did("mc_existing", 0, c)
    /\ Move(c, [c EXCEPT !.pc = IF ExistingTransaction(c.id) THEN "mc_notify"
                                 ELSE "mc_profile"])

MechanicCompleteProfile ==
  \E c \in InFlight :
    /\ c.pc = "mc_profile"
    /\ UNCHANGED db
    /\ Did("mc_profile", 0, c)
    /\ IF c.userId \in DOMAIN mechanic_profiles
         THEN Move(c, [c EXCEPT !.pc = "mc_balance",
                          !.currentBalance = mechanic_profiles[c.userId].wallet_balance])
         ELSE Move(c, [c EXCEPT !.pc = "mc_notify"])

MechanicCompleteBalance ==
  \E c \in InFlight :
    /\ c.pc = "mc_balance"
    /\ mechanic_profiles' = [mechanic_profiles EXCEPT
          ![c.userId].wallet_balance = c.currentBalance + Earnings(c.laborCost)]
    /\ UNCHANGED <<service_requests, wallet_transactions, notifications>>
    /\ Did("mc_balance", 0, c)
    /\ Move(c, [c EXCEPT !.pc = "mc_transaction"])

MechanicCompleteTransaction ==
  \E c \in InFlight :
    /\ c.pc = "mc_transaction"
    /\ wallet_transactions' =
         Append(wallet_transactions, CommissionRow(c.userId, c.id, c.laborCost))
    /\ UNCHANGED <<service_requests, mechanic_profiles, notifications>>
    /\ Did("mc_transaction", 0, c)
    /\ Move(c, [c EXCEPT !.pc = "mc_notify"])

MechanicCompleteNotify ==
  \E c \in InFlight :
    /\ c.pc = "mc_notify"
    /\ Notify(c.srCustomer, "Service Completed", c.id)
    /\ UNCHANGED <<service_requests, mechanic_profiles, wallet_transactions>>
    /\ Did("mc_notify", 200, c)
    /\ Finish(c)

(* ---- withdrawFromWallet --------------------------------------------- *)
WithdrawalRow(userId, withdrawalAmount) ==
  [user_id |-> userId, amount |-> 0 - withdrawalAmount,
   transaction_type |-> "withdrawal", reference_id |-> Null,
   reference_type |-> "none", status |-> Some("pending")]

InsufficientReversed(currentBalance, withdrawalAmount) == currentBalance > withdrawalAmount

InsufficientNever(currentBalance, withdrawalAmount) == FALSE

Insufficient(currentBalance, withdrawalAmount) == currentBalance < withdrawalAmount

RollbackCodeBusiness == 400

RollbackCode == 500          \* CustomError('Failed to process withdrawal', 500)

WithdrawStart(n) ==
  \E u \in Users, amount \in AmountInputs :
    LET c == [NewCall("withdraw", u, 0) EXCEPT !.amount = ParseFloat(amount)] IN
    /\ CanStart(n)
    /\ Len(wallet_transactions) < MaxLedger
    /\ UNCHANGED db
    /\ IF Falsy(amount)
         THEN Did("withdraw", 400, c) /\ UNCHANGED calls
       ELSE IF c.amount <= 0
         THEN Did("withdraw", 400, c) /\ UNCHANGED calls
       ELSE IF u \notin DOMAIN mechanic_profiles
         THEN Did("withdraw", 404, c) /\ UNCHANGED calls
       ELSE IF Insufficient(mechanic_profiles[u].wallet_balance, c.amount)
         THEN Did("withdraw", 400, [c EXCEPT !.currentBalance = mechanic_profiles[u].wallet_balance])
              /\ UNCHANGED calls
       ELSE Did("withdraw", 0, c)
            /\ Spawn([c EXCEPT !.pc = "w_balance",
                        !.currentBalance = mechanic_profiles[u].wallet_balance])

WithdrawBalance ==
  \E c \in InFlight :
    /\ c.pc = "w_balance"
    /\ mechanic_profiles' = [mechanic_profiles EXCEPT
          ![c.userId].wallet_balance = c.currentBalance - c.amount]
    /\ UNCHANGED <<service_requests, wallet_transactions, notifications>>
    /\ Did("w_balance", 0, c)
    /\ Move(c, [c EXCEPT !.pc = "w_transaction"])

WithdrawTransaction ==
  \E c \in InFlight :
    /\ c.pc = "w_transaction"
    /\ UNCHANGED <<service_requests, mechanic_profiles, notifications>>
    /\ \/ /\ wallet_transactions' = Append(wallet_transactions, WithdrawalRow(c.userId, c.amount))
          /\ Did("w_transaction", 200, c)
          /\ Finish(c)
       \/ /\ UNCHANGED wallet_transactions          \* the insert fails
          /\ Did("w_transaction", 0, c)
          /\ Move(c, [c EXCEPT !.pc = "w_rollback"])

WithdrawRollback ==
  \E c \in InFlight :
    /\ c.pc = "w_rollback"
    /\ mechanic_profiles' = [mechanic_profiles EXCEPT
          ![c.userId].wallet_balance = c.currentBalance]
    /\ UNCHANGED <<service_requests, wallet_transactions, notifications>>
    /\ Did("w_rollback", RollbackCode, c)
    /\ Finish(c)

(* ---- getNearbyMechanics --------------------------------------------- *)
(* Coordinates are counted in hundredths of a degree and distances in     *)
(* metres.  The requester and every located provider are on one meridian, *)
(* where the haversine formula reduces to R * dLat:                        *)
(* 6371 km * pi / 180 = 111.19 km per degree, 1112 m per hundredth.        *)
MetresPerStep == 1112
Meridian == 300                         \* longitude 3.00
Abs(x) == IF x < 0 THEN 0 - x ELSE x
calculateDistance(lat1, lon1, lat2, lon2) == MetresPerStep * Abs(lat2 - lat1)

RoundTenths(metres) == (metres + 50) \div 100       \* Math.round(distance * 10) / 10, in tenths of a km
ToLowerCase(str) == CASE str = "Engine" -> "engine" [] str = "ENGINE" -> "engine" [] OTHER -> str

LatInputs == {Absent, Str(3)}
LngInputs == {Str(Meridian)}
RadiusInputs == {Absent, Str(0), Str(25)}
SpecializationInputs == {"", "ENGINE"}          \* "": no filter in the query
LocationLats == {Null, Some(0), Some(3), Some(6), Some(25)}
SpecializationSets == {{}, {"Engine"}}

(* the rows a provider can have when a search arrives *)
NearbyProfiles ==
  {[wallet_balance |-> 0, is_available |-> a, rating |-> 0, verification_status |-> v,
    location_lat |-> l, location_lng |-> IF l = Null THEN Null ELSE Some(Meridian),
    specializations |-> sp] :
     a \in BOOLEAN, v \in {"approved", "pending"}, l \in LocationLats,
     sp \in SpecializationSets}

InitNearby ==
  /\ service_requests = <<>>
  /\ mechanic_profiles \in [Mechanics -> NearbyProfiles]
  /\ wallet_transactions = <<>>
  /\ notifications = EmptyBag
  /\ calls = EmptyBag
  /\ last = [step |-> "init", code |-> 0, call |-> NoCall]

(* the orders in which a query without ORDER BY can return the rows of S *)
Orders(S) ==
  {o \in [1..Cardinality(S) -> S] : \A i, j \in DOMAIN o : i # j => o[i] # o[j]}

(* parseFloat(radius) || 10, radius defaulting to 10 in the destructuring *)
RadiusKm(radius) ==
  LET r == IF radius.json = "absent" THEN 10 ELSE ParseFloat(radius)
  IN IF r = 0 THEN 10 ELSE r

(* the element the map callback returns for a provider, <<>> for null *)
WithDistance(c, m) ==
  LET user == mechanic_profiles[m]
      distance == calculateDistance(c.latitude, c.longitude,
                                    Val(user.location_lat), Val(user.location_lng))
      mechanicSpecs == user.specializations
  IN IF ~Truthy(user.location_lat) \/ ~Truthy(user.location_lng) THEN <<>>
     ELSE IF c.body.specialization # ""
             /\ ~\E sp \in mechanicSpecs :
                    ToLowerCase(sp) = ToLowerCase(c.body.specialization) THEN <<>>
     ELSE IF distance > 1000 * c.radiusKm THEN <<>>
     ELSE <<[id |-> m, distance |-> RoundTenths(distance),
             specializations |-> mechanicSpecs]>>

RECURSIVE MapFilter(_, _)
MapFilter(c, mechanics) ==
  IF mechanics = <<>> THEN <<>>
  ELSE WithDistance(c, Head(mechanics)) \o MapFilter(c, Tail(mechanics))

(* Array.prototype.sort is stable: an element goes behind its equals *)
RECURSIVE SortByDistance(_)
InsertBeforeEquals(x, sorted) ==
  LET k == Cardinality({i \in DOMAIN sorted : sorted[i].distance < x.distance})
  IN SubSeq(sorted, 1, k) \o <<x>> \o SubSeq(sorted, k + 1, Len(sorted))

Insert(x, sorted) ==
  LET k == Cardinality({i \in DOMAIN sorted : sorted[i].distance <= x.distance})
  IN SubSeq(sorted, 1, k) \o <<x>> \o SubSeq(sorted, k + 1, Len(sorted))
SortByDistance(list) ==
  IF list = <<>> THEN <<>>
  ELSE Insert(list[Len(list)], SortByDistance(SubSeq(list, 1, Len(list) - 1)))

NearbyStart(n) ==
  \E lat \in LatInputs, lng \in LngInputs, radius \in RadiusInputs,
     specialization \in SpecializationInputs :
    LET c == [NewCall("nearby", "none", 0) EXCEPT
                !.body = [lat |-> lat, lng |-> lng, radius |-> radius,
                          specialization |-> specialization],
                !.latitude = ParseFloat(lat), !.longitude = ParseFloat(lng),
                !.radiusKm = RadiusKm(radius)]
        found == {m \in DOMAIN mechanic_profiles :
                    /\ mechanic_profiles[m].verification_status = "approved"
                    /\ mechanic_profiles[m].is_available}
    IN
    /\ CanStart(n)
    /\ UNCHANGED db
    /\ IF Falsy(lat) \/ Falsy(lng)
         THEN Did("nearby", 400, c) /\ UNCHANGED calls
       ELSE IF found = {}
         THEN Did("nearby", 200, c) /\ UNCHANGED calls
       ELSE \E mechanics \in Orders(found) :
              /\ Did("nearby", 0, c)
              /\ Spawn([c EXCEPT !.pc = "nb_specializations", !.mechanics = mechanics])

NearbySpecializations ==
  \E c \in InFlight :
    /\ c.pc = "nb_specializations"
    /\ UNCHANGED db
    /\ Did("nb_specializations", 200,
           [c EXCEPT !.data = SortByDistance(MapFilter(c, c.mechanics))])
    /\ Finish(c)

(* ---- specifications -------------------------------------------------- *)
(* The request lifecycle and the settlement, from an empty database. *)
Next ==
  \/ CreateStart(MaxInFlight) \/ CreateVehicle \/ CreateInsert \/ CreateNotify
  \/ AcceptStart(MaxInFlight) \/ AcceptRead \/ AcceptWrite \/ AcceptNotify
  \/ DeclineStart(MaxInFlight) \/ DeclineWrite
  \/ ArrivedStart(MaxInFlight) \/ ArrivedWrite \/ ArrivedNotify
  \/ CancelStart(MaxInFlight) \/ CancelWrite \/ CancelNotify
  \/ CompleteStart(MaxInFlight) \/ CompleteWrite \/ CompleteExisting \/ CompleteProfile
  \/ CompleteBalance \/ CompleteTransaction \/ CompleteRatings \/ CompleteRate
  \/ MechanicCompleteStart(MaxInFlight) \/ MechanicCompleteWrite \/ MechanicCompleteExisting
  \/ MechanicCompleteProfile \/ MechanicCompleteBalance
  \/ MechanicCompleteTransaction \/ MechanicCompleteNotify

Spec == Init /\ [][Next]_vars

(* The ledger: the settlement and the withdrawals of one job.  The calls   *)
(* that lead the job to in_progress run one at a time; the completion    *)
(* calls and the withdrawals run up to MaxInFlight at a time.             *)
NextWallet ==
  \/ CreateStart(1) \/ CreateVehicle \/ CreateInsert \/ CreateNotify
  \/ AcceptStart(1) \/ AcceptRead \/ AcceptWrite \/ AcceptNotify
  \/ ArrivedStart(1) \/ ArrivedWrite \/ ArrivedNotify
  \/ CompleteStart(MaxInFlight) \/ CompleteWrite \/ CompleteExisting \/ CompleteProfile
  \/ CompleteBalance \/ CompleteTransaction \/ CompleteRatings \/ CompleteRate
  \/ MechanicCompleteStart(MaxInFlight) \/ MechanicCompleteWrite \/ MechanicCompleteExisting
  \/ MechanicCompleteProfile \/ MechanicCompleteBalance
  \/ MechanicCompleteTransaction \/ MechanicCompleteNotify
  \/ WithdrawStart(MaxInFlight) \/ WithdrawBalance \/ WithdrawTransaction \/ WithdrawRollback

SpecWallet == Init /\ [][NextWallet]_vars

(* Concurrent completion calls: the lifecycle calls run one at a time,    *)
(* the completion calls of both parties up to MaxInFlight + 1 at a time.  *)
NextSettle ==
  \/ CreateStart(1) \/ CreateVehicle \/ CreateInsert \/ CreateNotify
  \/ AcceptStart(1) \/ AcceptRead \/ AcceptWrite \/ AcceptNotify
  \/ ArrivedStart(1) \/ ArrivedWrite \/ ArrivedNotify
  \/ CompleteStart(MaxInFlight + 1) \/ CompleteWrite \/ CompleteExisting \/ CompleteProfile
  \/ CompleteBalance \/ CompleteTransaction \/ CompleteRatings \/ CompleteRate
  \/ MechanicCompleteStart(MaxInFlight + 1) \/ MechanicCompleteWrite \/ MechanicCompleteExisting
  \/ MechanicCompleteProfile \/ MechanicCompleteBalance
  \/ MechanicCompleteTransaction \/ MechanicCompleteNotify

SpecSettle == Init /\ [][NextSettle]_vars

(* Availability: the provider toggles while requests are created and accepted. *)
NextAvailability ==
  \/ CreateStart(MaxInFlight) \/ CreateVehicle \/ CreateInsert \/ CreateNotify
  \/ AcceptStart(MaxInFlight) \/ AcceptRead \/ AcceptWrite \/ AcceptNotify
  \/ ToggleStart(MaxInFlight) \/ ToggleWrite

SpecAvailability == Init /\ [][NextAvailability]_vars

(* Every handler that writes, with its guards: the eight operations of  *)
(* the lifecycle and the wallet.  The calls that move the request before  *)
(* its completion start one at a time; the completion calls and the       *)
(* withdrawals run up to MaxInFlight at a time, next to any of them.      *)
NextGuards ==
  \/ CreateStart(1) \/ CreateVehicle \/ CreateInsert \/ CreateNotify
  \/ AcceptStart(1) \/ AcceptRead \/ AcceptWrite \/ AcceptNotify
  \/ DeclineStart(1) \/ DeclineWrite
  \/ ArrivedStart(1) \/ ArrivedWrite \/ ArrivedNotify
  \/ CancelStart(1) \/ CancelWrite \/ CancelNotify
  \/ CompleteStart(MaxInFlight) \/ CompleteWrite \/ CompleteExisting \/ CompleteProfile
  \/ CompleteBalance \/ CompleteTransaction \/ CompleteRatings \/ CompleteRate
  \/ MechanicCompleteStart(MaxInFlight) \/ MechanicCompleteWrite \/ MechanicCompleteExisting
  \/ MechanicCompleteProfile \/ MechanicCompleteBalance
  \/ MechanicCompleteTransaction \/ MechanicCompleteNotify
  \/ WithdrawStart(MaxInFlight) \/ WithdrawBalance \/ WithdrawTransaction \/ WithdrawRollback

SpecGuards == Init /\ [][NextGuards]_vars

(* The search: providers in any state of approval, availability, location *)
(* and specialization, and searches with any of the query's options.      *)
NextNearby ==
  \/ NearbyStart(MaxInFlight) \/ NearbySpecializations

SpecNearby == InitNearby /\ [][NextNearby]_vars

(* Pricing: completion calls that differ in the labor cost they send, up *)
(* to MaxInFlight at a time, after a lifecycle that ran one call at a time. *)
NextPricing ==
  \/ CreateStart(1) \/ CreateVehicle \/ CreateInsert \/ CreateNotify
  \/ AcceptStart(1) \/ AcceptRead \/ AcceptWrite \/ AcceptNotify
  \/ ArrivedStart(1) \/ ArrivedWrite \/ ArrivedNotify
  \/ CompleteStartWith(MaxInFlight, RepricedLaborInputs) \/ CompleteWrite \/ CompleteExisting
  \/ CompleteProfile \/ CompleteBalance \/ CompleteTransaction \/ CompleteRatings \/ CompleteRate
  \/ MechanicCompleteStart(MaxInFlight) \/ MechanicCompleteWrite \/ MechanicCompleteExisting
  \/ MechanicCompleteProfile \/ MechanicCompleteBalance
  \/ MechanicCompleteTransaction \/ MechanicCompleteNotify

SpecPricing == Init /\ [][NextPricing]_vars

(* ======================================================================= *)
(* Properties                                                              *)
(* ======================================================================= *)
Ids == 1..Len(service_requests)
Req(id) == service_requests[id]
Balance(m) == mechanic_profiles[m].wallet_balance
Quiescent == calls = EmptyBag
Terminal == {"completed", "cancelled"}
Edges == {<<"pending", "accepted">>, <<"accepted", "in_progress">>,
          <<"in_progress", "completed">>, <<"pending", "cancelled">>,
          <<"accepted", "cancelled">>}

RECURSIVE LedgerSum(_, _)
LedgerSum(m, n) ==
  IF n = 0 THEN 0
  ELSE LedgerSum(m, n - 1)
       + (IF wallet_transactions[n].user_id = m THEN wallet_transactions[n].amount ELSE 0)

SettlementBalanceSteps == {"cc_balance", "mc_balance"}
SettlementInsertSteps == {"cc_transaction", "mc_transaction"}
SettlementCheckSteps == {"cc_existing", "mc_existing"}

(* C1: once no handler is running, every completed request is referenced  *)
(* by exactly one commission_deduction row, of amount -0.15 * labor_cost, *)
(* however many completion calls of either party were interleaved.        *)
IdempotentCommission ==
  Quiescent =>
    \A id \in Ids :
      Req(id).status = "completed" =>
        /\ Cardinality(CommissionRows(id)) = 1
        /\ \A i \in CommissionRows(id) :
             wallet_transactions[i].amount = 0 - Commission(Val(Req(id).labor_cost))

(* C2: a status of completed or cancelled is never changed by any step of *)
(* any handler.                                                            *)
TerminalStatusIsFinal ==
  [][\A id \in Ids :
       Req(id).status \in Terminal => service_requests'[id].status = Req(id).status]_vars

(* C3: once every settlement and withdrawal has finished, each provider's *)
(* wallet_balance is the sum of the amounts of that provider's rows.       *)
BalanceConsistency ==
  Quiescent =>
    \A m \in DOMAIN mechanic_profiles :
      Balance(m) = LedgerSum(m, Len(wallet_transactions))

(* C4: every change of a request's status follows one of the five edges   *)
(* of the lifecycle; in particular in_progress never becomes cancelled.    *)
StatusFollowsEdges ==
  [][\A id \in Ids :
       service_requests'[id].status # Req(id).status =>
         <<Req(id).status, service_requests'[id].status>> \in Edges]_vars

(* a completed request has both flags and a completion timestamp *)
CompletedIsConfirmed ==
  \A id \in Ids :
    Req(id).status = "completed" =>
      /\ Req(id).mechanic_confirmed
      /\ Req(id).customer_confirmed
      /\ Req(id).completed_at # Null

(* the write of a completion call that read the other party's flag as false *)
FirstConfirmationKeepsStatus ==
  /\ (last'.step = "cc_write" /\ ~last'.call.finalize) =>
        LET id == last'.call.id IN
        /\ service_requests'[id].customer_confirmed
        /\ service_requests'[id].mechanic_confirmed = Req(id).mechanic_confirmed
        /\ service_requests'[id].status = Req(id).status
        /\ service_requests'[id].completed_at = Req(id).completed_at
  /\ (last'.step = "mc_write" /\ ~last'.call.finalize) =>
        LET id == last'.call.id IN
        /\ service_requests'[id].mechanic_confirmed
        /\ service_requests'[id].customer_confirmed = Req(id).customer_confirmed
        /\ service_requests'[id].status = Req(id).status
        /\ service_requests'[id].completed_at = Req(id).completed_at

SettlementArithmetic ==
  [][LET c == last'.call
         m == IF c.op = "complete" THEN c.srMechanic ELSE c.userId
     IN /\ last'.step \in SettlementBalanceSteps =>
             mechanic_profiles'[m].wallet_balance = Balance(m) + Earnings(c.laborCost)
        /\ last'.step \in SettlementInsertSteps =>
             wallet_transactions' =
               Append(wallet_transactions, CommissionRow(m, c.id, c.laborCost))]_vars

(* C7: a settlement whose check runs while a commission_deduction row     *)
(* referencing the request exists goes on to no balance read or write and  *)
(* no insert: the handler skips past the settlement.                       *)
ExistingCommissionSkips ==
  [][(last'.step \in SettlementCheckSteps /\ CommissionRows(last'.call.id) # {}) =>
       \A d \in BagToSet(calls') :
         d.pc \in {"cc_profile", "mc_profile"} => CopiesIn(d, calls') = CopiesIn(d, calls)]_vars

(* C8: every request referenced by a commission_deduction row has status  *)
(* completed.                                                              *)
CommissionOnlyWhenCompleted ==
  \A id \in Ids : CommissionRows(id) # {} => Req(id).status = "completed"

(* C9: a withdrawal of more than the provider's current wallet_balance is *)
(* answered 400 and changes neither the balance nor the ledger.            *)
OverdraftRejected ==
  [][(/\ last'.step = "withdraw"
      /\ last'.call.userId \in DOMAIN mechanic_profiles
      /\ last'.call.amount > Balance(last'.call.userId)) =>
        /\ last'.code = 400
        /\ UNCHANGED <<mechanic_profiles, wallet_transactions, calls>>]_vars

OverdraftRejectedReached ==
  /\ last.step = "withdraw"
  /\ last.code = 400
  /\ last.call.userId \in DOMAIN mechanic_profiles
  /\ Balance(last.call.userId) > 0
  /\ last.call.amount > Balance(last.call.userId)

(* C10: the balance write of a withdrawal of a lowers the stored           *)
(* wallet_balance by exactly a, and its successful insert, which comes     *)
(* after that write, appends exactly one pending withdrawal row of -a.     *)
WithdrawalEffect ==
  [][LET c == last'.call
     IN /\ last'.step = "w_balance" =>
             mechanic_profiles'[c.userId].wallet_balance = Balance(c.userId) - c.amount
        /\ (last'.step = "w_transaction" /\ last'.code = 200) =>
             /\ c.pc = "w_transaction"
             /\ wallet_transactions' =
                  Append(wallet_transactions, WithdrawalRow(c.userId, c.amount))]_vars

(* C11: when the insert of the withdrawal row fails, the handler answers   *)
(* with an error, no row is added, and its compensating write puts back    *)
(* exactly the amount it debited: the stored balance rises by that amount, *)
(* so whatever other handlers wrote since the debit is kept.               *)
FailedWithdrawalReverted ==
  [][LET c == last'.call
     IN /\ (last'.step = "w_transaction" /\ last'.code # 200) =>
             wallet_transactions' = wallet_transactions
        /\ last'.step = "w_rollback" =>
             /\ last'.code >= 400
             /\ wallet_transactions' = wallet_transactions
             /\ mechanic_profiles'[c.userId].wallet_balance =
                  Balance(c.userId) + c.amount]_vars

(* C12: no provider's wallet_balance is ever negative, whatever the       *)
(* interleaving of withdrawals, failed withdrawals and settlements.        *)
BalanceNeverNegative ==
  \A m \in DOMAIN mechanic_profiles : Balance(m) >= 0

(* a failed withdrawal has just put its balance back while another call runs *)
BalanceNeverNegativeReached ==
  /\ last.step = "w_rollback"
  /\ ~Quiescent
  /\ Balance(last.call.userId) > 0
  /\ \E i \in 1..Len(wallet_transactions) :
       wallet_transactions[i].transaction_type = "commission_deduction"

(* the customer's cancellation of the request has run to its end *)
CancelFinished(id) ==
  \E n \in BagToSet(notifications) :
    n.reference_id = id /\ n.title = "Service Request Cancelled"

(* C13: the write of a customer's cancellation sets the status to         *)
(* cancelled; once that cancellation has finished, every cancel call the   *)
(* customer starts and every accept call of the assigned provider that     *)
(* reads the request is answered 400 and leaves the request as it is.      *)
CancelledRejectsLaterCalls ==
  [][LET c == last'.call
     IN /\ last'.step = "ca_write" => service_requests'[c.id].status = "cancelled"
        /\ (/\ Exists(c.id)
            /\ CancelFinished(c.id)
            /\ \/ last'.step = "cancel" /\ c.userId = Req(c.id).customer_id
               \/ last'.step = "ac_read" /\ c.userId = Req(c.id).mechanic_id) =>
             /\ last'.code = 400
             /\ service_requests' = service_requests
             /\ \A d \in BagToSet(calls') : CopiesIn(d, calls') <= CopiesIn(d, calls)]_vars

ProviderOps == {"accept", "decline", "arrived", "mcomplete"}
CustomerOps == {"cancel", "complete"}

(* the call is on a request that is not the caller's to act on *)
ForeignCall(c) ==
  /\ Exists(c.id)
  /\ \/ c.op \in ProviderOps /\ c.userId # Req(c.id).mechanic_id
     \/ c.op \in CustomerOps /\ c.userId # Req(c.id).customer_id

(* C14: no step of an accept, decline, arrival or provider-confirmation   *)
(* call made by a user other than the request's assigned provider, and no  *)
(* step of a cancel or customer-completion call made by a user other than  *)
(* its requester, changes the request, any wallet_balance or the ledger.   *)
OnlyTheActorChanges ==
  [][ForeignCall(last'.call) =>
       UNCHANGED <<service_requests, mechanic_profiles, wallet_transactions>>]_vars

(* another provider, with a profile of its own, is turned away at the read *)
OnlyTheActorChangesReached ==
  /\ last.step = "ac_read"
  /\ last.code = 403
  /\ last.call.userId \in DOMAIN mechanic_profiles
  /\ ForeignCall(last.call)

(* positions of a handler at which it has written nothing yet *)
BeforeFirstWrite == {"none", "cr_vehicle", "ac_read"}

(* C15: a step of create, accept, decline, markArrived, cancel, either    *)
(* completion or withdraw that answers with a guard failure (a 4xx         *)
(* status: validation, permission, not-found or business-rule error)       *)
(* changes no table, and the call it ends has written nothing before it.   *)
GuardFailureChangesNothing ==
  [][(last'.code >= 400 /\ last'.code < 500) =>
       /\ UNCHANGED db
       /\ last'.call.pc \in BeforeFirstWrite]_vars

(* a completion call is turned away by its validation while the provider's *)
(* confirmation of the same request is being written                       *)
GuardFailureChangesNothingReached ==
  /\ last.step = "complete"
  /\ last.code = 400
  /\ \E d \in InFlight : d.op = "mcomplete" /\ d.id = last.call.id

Supplied(x) == x.json # "absent"
IntegerRating(x) == Supplied(x) /\ x.frac = 0 /\ x.v >= 1 /\ x.v <= 5
PricingColumns(row) ==
  <<row.material_cost, row.labor_cost, row.total_cost, row.customer_rating>>

(* C17: a customer's completion call whose body lacks the material cost   *)
(* or the labor cost, or whose rating is not an integer from 1 to 5, is    *)
(* answered 400 by its first step, which reads and changes nothing and     *)
(* leaves no handler running; no step of a provider's completion call      *)
(* changes material_cost, labor_cost, total_cost or customer_rating.       *)
CompletionInputsChecked ==
  [][LET c == last'.call
     IN /\ (/\ last'.step = "complete"
            /\ ~(/\ Supplied(c.body.material_cost)
                 /\ Supplied(c.body.labor_cost)
                 /\ IntegerRating(c.body.rating))) =>
             /\ last'.code = 400
             /\ UNCHANGED <<db, calls>>
        /\ c.op = "mcomplete" =>
             \A id \in Ids :
               PricingColumns(service_requests'[id]) = PricingColumns(Req(id))]_vars

CompletedRatedRows(mechanic_id) ==
  {i \in RatedRows(mechanic_id) : Req(i).status = "completed"}

(* C18: once no handler is running, each provider's rating is the mean,   *)
(* rounded to one decimal, of customer_rating over that provider's         *)
(* completed requests that have one; while the provider has no such        *)
(* request the rating keeps its initial value, so that the rating of a     *)
(* request that is not completed enters no mean.                            *)
RatingIsMeanOfCompleted ==
  Quiescent =>
    \A m \in DOMAIN mechanic_profiles :
      LET rows == CompletedRatedRows(m)
      IN mechanic_profiles[m].rating =
           IF rows = {} THEN 0
           ELSE AverageRating(TotalRating(rows), Cardinality(rows))

TransitionOps == {"accept", "decline", "arrived", "cancel", "complete", "mcomplete"}

(* the user on the other side of the request from the caller *)
OtherParty(c) ==
  IF c.userId = Req(c.id).customer_id THEN Req(c.id).mechanic_id ELSE Req(c.id).customer_id

(* C19: the step with which an accept, a decline, an arrival, a           *)
(* cancellation or a completion call that finalizes the request answers    *)
(* 200 inserts, as the handler's last query, one notification that         *)
(* references the request and is addressed to the other party.             *)
TransitionNotifies ==
  [][LET c == last'.call
     IN (/\ last'.code = 200
         /\ c.op \in TransitionOps
         /\ c.op \in {"complete", "mcomplete"} => c.finalize) =>
          \E n \in BagToSet(notifications') :
            /\ n.reference_id = c.id
            /\ n.user_id = OtherParty(c)
            /\ notifications' = notifications (+) SetToBag({n})]_vars

(* the radius the search asks for: the query's radius, 10 km when it has none *)
AskedRadius(c) == IF c.body.radius.json = "absent" THEN 10 ELSE c.body.radius.v

(* the providers the contract of the search names *)
NearbyContract(c) ==
  {m \in DOMAIN mechanic_profiles :
     LET p == mechanic_profiles[m] IN
     /\ p.verification_status = "approved"
     /\ p.is_available
     /\ p.location_lat # Null /\ p.location_lng # Null
     /\ calculateDistance(c.latitude, c.longitude, Val(p.location_lat), Val(p.location_lng))
          <= 1000 * AskedRadius(c)
     /\ c.body.specialization # "" =>
          \E sp \in p.specializations : ToLowerCase(sp) = ToLowerCase(c.body.specialization)}

(* C20: a search that is answered 200 returns exactly the providers that  *)
(* are approved, available, located, within the radius asked for and,      *)
(* when a specialization is asked for, have it up to case; a provider      *)
(* without a location is left out and the search still answers 200.        *)
NearbyReturnsContract ==
  [][(\/ last'.step = "nb_specializations"
      \/ last'.step = "nearby" /\ last'.code = 200) =>
       /\ last'.code = 200
       /\ {last'.call.data[i].id : i \in DOMAIN last'.call.data} = NearbyContract(last'.call)
     ]_vars

(* the place of provider m in the rows the first query returned *)
InputIndex(mechanics, m) == CHOOSE i \in DOMAIN mechanics : mechanics[i] = m

(* C21: the list a search returns is in ascending order of the distance   *)
(* it reports, and of two providers reported at the same distance the one  *)
(* that came first in the rows of the query comes first in the list.       *)
NearbySortedStable ==
  [][last'.step = "nb_specializations" =>
       LET c == last'.call
           data == c.data
       IN \A i, j \in DOMAIN data :
            i < j =>
              /\ data[i].distance <= data[j].distance
              /\ data[i].distance = data[j].distance =>
                   InputIndex(c.mechanics, data[i].id) < InputIndex(c.mechanics, data[j].id)]_vars

(* two providers at the same distance, returned by the query in the order *)
(* m2, m1, have been reported in that order                                *)
NearbySortedStableReached ==
  /\ last.step = "nb_specializations"
  /\ Len(last.call.data) = 2
  /\ last.call.data[1].distance = last.call.data[2].distance
  /\ last.call.mechanics = <<"m2", "m1">>
  /\ last.call.data[1].id = "m2"

AcceptGuarded ==
  [][LET c == last'.call
     IN /\ last'.step = "accept" =>
             IF last'.code = 0
               THEN /\ c.userId \in DOMAIN mechanic_profiles
                    /\ mechanic_profiles[c.userId].is_available
               ELSE last'.code >= 400 /\ UNCHANGED <<db, calls>>
        /\ last'.step = "ac_read" =>
             IF last'.code = 0
               THEN /\ Exists(c.id)
                    /\ Req(c.id).mechanic_id = c.userId
                    /\ Req(c.id).status = "pending"
               ELSE last'.code >= 400 /\ UNCHANGED db
        /\ \A id \in Ids :
             (service_requests'[id].status = "accepted" /\ Req(id).status # "accepted") =>
               last'.step = "ac_write" /\ c.pc = "ac_write" /\ c.id = id]_vars

(* an accept has been turned away because the provider is unavailable, on *)
(* a request that is pending and assigned to that provider                 *)
AcceptGuardedReached ==
  /\ last.step = "accept"
  /\ last.code = 400
  /\ Exists(last.call.id)
  /\ Req(last.call.id).mechanic_id = last.call.userId
  /\ Req(last.call.id).status = "pending"

(* the write of a markArrived call on the request has happened *)
ArrivalWritten(id) ==
  \/ \E n \in BagToSet(notifications) : n.reference_id = id /\ n.title = "Mechanic Arrived"
  \/ \E d \in InFlight : d.op = "arrived" /\ d.pc = "ar_notify" /\ d.id = id

ArrivalRecorded == \A id \in Ids : Req(id).arrived_at # Null <=> ArrivalWritten(id)

ArrivalSteps ==
  LET c == last'.call
  IN /\ last'.step = "arrived" =>
          IF last'.code = 0
            THEN /\ Exists(c.id)
                 /\ Req(c.id).mechanic_id = c.userId
                 /\ Req(c.id).status = "accepted"
            ELSE last'.code >= 400 /\ UNCHANGED <<db, calls>>
     /\ last'.step = "ar_write" =>
          /\ c.op = "arrived" /\ c.pc = "ar_write" /\ c.userId = Req(c.id).mechanic_id
          /\ service_requests'[c.id].status = "in_progress"
          /\ service_requests'[c.id].arrived_at # Null
     /\ \A id \in Ids :
          service_requests'[id].arrived_at # Req(id).arrived_at =>
            last'.step = "ar_write" /\ c.id = id

ForeignCallForbidden ==
  [][(ForeignCall(last'.call) /\ last'.code # 0) => last'.code = 403]_vars

(* C26: once no handler is running, a request with both confirmation      *)
(* flags set has status completed.                                          *)
BothConfirmedIsCompleted ==
  Quiescent =>
    \A id \in Ids :
      (Req(id).mechanic_confirmed /\ Req(id).customer_confirmed) =>
        Req(id).status = "completed"

(* C27: no step changes material_cost, labor_cost, total_cost or          *)
(* customer_rating of a request whose status is completed.                 *)
CompletedPricingIsFinal ==
  [][\A id \in Ids :
       Req(id).status = "completed" =>
         PricingColumns(service_requests'[id]) = PricingColumns(Req(id))]_vars

CustomerConfirmedIsPriced ==
  \A id \in Ids :
    Req(id).customer_confirmed =>
      /\ Req(id).material_cost # Null
      /\ Req(id).labor_cost # Null
      /\ Req(id).customer_rating # Null
      /\ Val(Req(id).customer_rating) >= 1
      /\ Val(Req(id).customer_rating) <= 5

(* C30: a request with customer_confirmed set has material_cost,          *)
(* labor_cost and a customer_rating from 1 to 5; and the write of a        *)
(* provider's completion call that finalizes a request is followed by the  *)
(* settlement: the handler goes on to the check for an existing            *)
(* commission instead of answering.                                        *)
ProviderFinalizationSettles ==
  /\ [](CustomerConfirmedIsPriced)
  /\ [][(last'.step = "mc_write" /\ last'.call.finalize) =>
          /\ last'.call.srLabor # Null
          /\ last'.code = 0
          /\ \E d \in BagToSet(calls') : d.pc = "mc_existing" /\ d.id = last'.call.id]_vars

(* what the settlements that wrote their commission row credited to m, and *)
(* what the withdrawals that wrote their row took from m                   *)
RECURSIVE CreditedSum(_, _)
CreditedSum(m, n) ==
  IF n = 0 THEN 0
  ELSE CreditedSum(m, n - 1)
       + (IF /\ wallet_transactions[n].user_id = m
             /\ wallet_transactions[n].transaction_type = "commission_deduction"
            THEN ((0 - wallet_transactions[n].amount) * 85) \div 15 ELSE 0)

RECURSIVE WithdrawnSum(_, _)
WithdrawnSum(m, n) ==
  IF n = 0 THEN 0
  ELSE WithdrawnSum(m, n - 1)
       + (IF /\ wallet_transactions[n].user_id = m
             /\ wallet_transactions[n].transaction_type = "withdrawal"
            THEN 0 - wallet_transactions[n].amount ELSE 0)

Credited(m) == CreditedSum(m, Len(wallet_transactions))
Withdrawn(m) == WithdrawnSum(m, Len(wallet_transactions))

(* C28: once no handler is running, and no request was settled twice, a   *)
(* provider's wallet_balance is the earnings of the settlements minus the  *)
(* amounts of the successful withdrawals: no balance write of a settlement *)
(* or of a withdrawal is lost, however their reads and writes interleaved. *)
NoBalanceUpdateLost ==
  (Quiescent /\ \A id \in Ids : Cardinality(CommissionRows(id)) <= 1) =>
    \A m \in DOMAIN mechanic_profiles : Balance(m) = Credited(m) - Withdrawn(m)

(* the earnings that settlements in flight have credited to m while their *)
(* commission row is not written yet                                       *)
RECURSIVE PendingCredit(_, _)
PendingCredit(m, S) ==
  IF S = {} THEN 0
  ELSE LET c == CHOOSE x \in S : TRUE IN
       (IF c.pc \in {"cc_transaction", "mc_transaction"} /\ c.srMechanic = m
          THEN CopiesIn(c, calls) * Earnings(c.laborCost) ELSE 0)
       + PendingCredit(m, S \ {c})

(* C29: in every state the amounts of a provider's withdrawal rows add up *)
(* to at most what settlements have credited to that provider (the initial *)
(* balance is 0), also when withdrawals run at the same time.              *)
WithdrawnWithinCredited ==
  \A m \in DOMAIN mechanic_profiles :
    Withdrawn(m) <= Credited(m) + PendingCredit(m, BagToSet(calls))
====
